---- MODULE Spec2Model ----
(***************************************************************************)
(* A model of the standuphub pipeline: scripts/fetch.py (the rule chain   *)
(* over the videos of the channels), scripts/rate.py (exceptions,         *)
(* attribution of a title to one performer, aggregation, scoring and      *)
(* ranking) and scripts/run_pipeline.py (fetch, then rate).               *)
(*                                                                         *)
(* Text is modelled with TLA+ strings, read character by character with   *)
(* Len and SubSeq.  TLA+ strings are ASCII, so the Cyrillic keywords of   *)
(* the source are written in Latin transliteration ("stendap" stands for  *)
(* the Cyrillic keyword of fetch.py:226, "VLOG" for the banned phrase of  *)
(* fetch.py:36, and so on).  Floating-point values are modelled exactly   *)
(* as rationals (a pair <<numerator, denominator>>) where a claim needs   *)
(* equality, and in fixed point where only their order is needed.         *)
(***************************************************************************)
EXTENDS Integers, Sequences, FiniteSets, TLC

VARIABLES
    CHANNEL_EXCEPTIONS,   \* fetch.py:228, channel_id -> set of flags
    exceptions_txt,       \* exceptions.txt as rate.py finds it: a File or NoFile
    ENABLE_ENGAGEMENT_MULTIPLIER, \* rate.py:57, the feature flag
    pc,                   \* position of the run
    videos,               \* fetch.main: the Video list of get_videos_full
    fi,                   \* fetch.main: number of videos of the loop handled
    accepted_rows,        \* fetch.main
    rejected_rows,        \* fetch.main
    filtered_csv,         \* out/filtered_videos.csv: a File of rows, or NoFile
    excluded_ids,         \* rate.main
    excluded_urls,        \* rate.main
    rate_videos,          \* rate.main: videos, the list of read_videos_csv
    ri,                   \* rate.main: number of videos of the loop handled
    clean_rows,           \* rate.main
    dropped_rows,         \* rate.main
    per_views,            \* rate.main: ordered dict performer -> view counts
    per_minutes,          \* rate.main: performer -> duration sum, in seconds
    per_likes,            \* rate.main: performer -> like sum
    global_views,         \* rate.main
    global_likes,         \* rate.main
    p0,                   \* rate.main: the prior like rate, a rational
    rating_rows,          \* rate.main
    channels_txt,         \* channels.txt as fetch.py finds it: a File or NoFile
    performers_txt,       \* performers.txt as rate.py finds it: a File or NoFile
    uploads,              \* the platform: channel id -> the items of its videos
    channel_inputs,       \* fetch.main: the identifiers read from channels.txt
    ci,                   \* fetch.main: number of channels of the loop handled
    outputs,              \* the names of the files the run has written
    debug_json,           \* out/filtered_videos_debug.json: a File, or NoFile
    metrics,              \* compute_base_score: its four arguments
    prev_score,           \* compute_base_score: the value before the last one
    score_value           \* compute_base_score: the last value returned

vars == <<CHANNEL_EXCEPTIONS, exceptions_txt, ENABLE_ENGAGEMENT_MULTIPLIER, pc,
          videos, fi, accepted_rows, rejected_rows, filtered_csv,
          excluded_ids, excluded_urls, rate_videos, ri, clean_rows,
          dropped_rows, per_views, per_minutes, per_likes, global_views,
          global_likes, p0, rating_rows, channels_txt, performers_txt, uploads,
          channel_inputs, ci, outputs, debug_json, metrics, prev_score,
          score_value>>

fetchVars == <<videos, fi, accepted_rows, rejected_rows>>

rateVars == <<excluded_ids, excluded_urls, rate_videos, ri, clean_rows,
              dropped_rows, per_views, per_minutes, per_likes, global_views,
              global_likes, p0, rating_rows>>

configVars == <<CHANNEL_EXCEPTIONS, exceptions_txt, ENABLE_ENGAGEMENT_MULTIPLIER,
                channels_txt, performers_txt, uploads>>

runVars == <<channel_inputs, ci, outputs, debug_json>>

scoreVars == <<metrics, prev_score, score_value>>

----------------------------------------------------------------------------
(* Bounds of the model. *)

\* The longest batch of videos (fetch) or of table rows (rate) of a run.
MaxVideos == 3

----------------------------------------------------------------------------
(* Text: characters, case folding, search. *)

\* A file: whether it exists, and its lines (or the rows of a table).
NoFile == [exists |-> FALSE, lines |-> <<>>]
File(lines) == [exists |-> TRUE, lines |-> lines]

\* Optional[int]: None is the empty tuple, the integer n is <<n>>.
None == <<>>

UpperChars == "ABCDEFGHIJKLMNOPQRSTUVWXYZ"
LowerChars == "abcdefghijklmnopqrstuvwxyz"
DigitChars == "0123456789"

CharAt(s, i) == SubSeq(s, i, i)

CharsOf(s) == {CharAt(s, i) : i \in 1..Len(s)}

CharIn(c, chars) == c \in CharsOf(chars)

\* Upper-case letter -> lower-case letter, for the first n letters.
RECURSIVE FoldTable(_)
FoldTable(n) ==
    IF n = 0 THEN <<>>
    ELSE (CharAt(UpperChars, n) :> CharAt(LowerChars, n)) @@ FoldTable(n - 1)

UpperToLower == FoldTable(Len(UpperChars))

\* str.casefold of one character: for the letters of the model, lower case.
FoldChar(c) == IF c \in DOMAIN UpperToLower THEN UpperToLower[c] ELSE c

RECURSIVE casefold(_)
casefold(s) == IF s = "" THEN "" ELSE FoldChar(Head(s)) \o casefold(Tail(s))

\* Python's "sub in s".
Contains(s, sub) ==
    \E i \in 1..(Len(s) - Len(sub) + 1) : SubSeq(s, i, i + Len(sub) - 1) = sub

StartsWith(s, prefix) ==
    Len(s) >= Len(prefix) /\ SubSeq(s, 1, Len(prefix)) = prefix

\* \s of the regular expressions, and what str.strip removes.
IsSpace(c) == c = " "

\* \w of the regular expressions: a letter, a digit or the underscore.
WordChars == CharsOf(UpperChars) \cup CharsOf(LowerChars) \cup CharsOf(DigitChars) \cup {"_"}

IsWordChar(c) == c \in WordChars

RECURSIVE LStrip(_)
LStrip(s) == IF s # "" /\ IsSpace(Head(s)) THEN LStrip(Tail(s)) ELSE s

RECURSIVE RStrip(_)
RStrip(s) ==
    IF s # "" /\ IsSpace(CharAt(s, Len(s))) THEN RStrip(SubSeq(s, 1, Len(s) - 1)) ELSE s

\* str.strip
strip(s) == RStrip(LStrip(s))

RECURSIVE Join(_, _)
Join(parts, sep) ==
    IF parts = <<>> THEN ""
    ELSE IF Len(parts) = 1 THEN parts[1]
    ELSE parts[1] \o sep \o Join(Tail(parts), sep)

Min(S) == CHOOSE x \in S : \A y \in S : x <= y

IsDigits(s) == s # "" /\ \A i \in 1..Len(s) : CharIn(CharAt(s, i), DigitChars)

DigitValue(c) == (CHOOSE i \in 1..Len(DigitChars) : CharAt(DigitChars, i) = c) - 1

\* int() of a text of decimal digits
RECURSIVE DigitsToInt(_)
DigitsToInt(s) ==
    IF s = "" THEN 0
    ELSE 10 * DigitsToInt(SubSeq(s, 1, Len(s) - 1)) + DigitValue(CharAt(s, Len(s)))

RECURSIVE DigitPrefix(_)
DigitPrefix(s) ==
    IF s # "" /\ CharIn(Head(s), DigitChars) THEN 1 + DigitPrefix(Tail(s)) ELSE 0

\* (?:(\d+)X)? at the start of s: <<the number or 0, what remains of s>>
DurationPart(s, letter) ==
    LET n == DigitPrefix(s)
    IN  IF n > 0 /\ Len(s) > n /\ CharAt(s, n + 1) = letter
        THEN <<DigitsToInt(SubSeq(s, 1, n)), SubSeq(s, n + 2, Len(s))>>
        ELSE <<0, s>>

----------------------------------------------------------------------------
(* scripts/fetch.py: configuration. *)

\* datetime(2022, 2, 24, tzinfo=utc), as the day number yyyymmdd; every
\* publish timestamp of the model is a day number in UTC.
CUTOFF_DATE == 20220224

MIN_SEC == 4 * 60
MAX_SEC == 2 * 60 * 60

\* The regular expressions of fetch.py:27-30 are alternations of literals, the
\* second pair followed by \w*, which matches the empty text: search succeeds
\* exactly when one of the literals occurs.  Each is a list of its literals.
RE_TITLE_PODCAST == <<"podkast", "pidkast", "podcast">>
RE_TITLE_IMPROV == <<"improvizatsi", "improv">>
RE_TITLE_ROZGONY == <<"rozgony", "zagony">>
RE_TITLE_HVYLYNA == <<"hvylyna", "uvagy">>

BANNED_TITLE_PHRASES ==
    <<"ya znayu de ty zhyvesh", "MEDYCHNI ISTORII", "KRAUD-VORK", "VLOG">>

STANDUP_KEYWORDS == <<"stendap", "stand up", "standup">>

\* pattern.search(title) of a pattern compiled with re.IGNORECASE
RegexSearch(pattern, title) ==
    LET folded == casefold(title)
    IN  \E k \in 1..Len(pattern) : Contains(folded, casefold(pattern[k]))

\* "channel_id|flag".split("|", 1), both parts stripped
SplitChannelLine(line) ==
    LET i == Min({k \in 1..Len(line) : CharAt(line, k) = "|"})
    IN  <<strip(SubSeq(line, 1, i - 1)), strip(SubSeq(line, i + 1, Len(line)))>>

RECURSIVE LoadChannelLines(_, _)
LoadChannelLines(lines, exceptions) ==
    IF lines = <<>> THEN exceptions
    ELSE LET line == strip(Head(lines))
         IN  IF line = "" \/ StartsWith(line, "#")
             THEN LoadChannelLines(Tail(lines), exceptions)
             ELSE LET cf == SplitChannelLine(line)
                      old == IF cf[1] \in DOMAIN exceptions
                             THEN exceptions[cf[1]] ELSE {}
                  IN  LoadChannelLines(Tail(lines),
                        [c \in (DOMAIN exceptions) \cup {cf[1]} |->
                            IF c = cf[1] THEN old \cup {cf[2]} ELSE exceptions[c]])

\* The file missing gives the empty dict.
load_channel_exceptions(file) ==
    IF ~file.exists THEN <<>> ELSE LoadChannelLines(file.lines, <<>>)

----------------------------------------------------------------------------
(* scripts/fetch.py: the rule engine.  A rule gives <<passed, reason>>. *)

rule_after_cutoff(v) ==
    IF v.published_at >= CUTOFF_DATE THEN <<TRUE, "">> ELSE <<FALSE, "before_2022_02_24">>

\* A minimum the duration may equal.
rule_min_duration_atleast(v) ==
    IF v.duration_sec >= MIN_SEC THEN <<TRUE, "">>
    ELSE <<FALSE, "too_short_<=_" \o ToString(MIN_SEC) \o "s">>

rule_min_duration(v) ==
    IF v.duration_sec > MIN_SEC THEN <<TRUE, "">>
    ELSE <<FALSE, "too_short_<=_" \o ToString(MIN_SEC) \o "s">>

rule_max_duration(v) ==
    IF v.duration_sec < MAX_SEC THEN <<TRUE, "">>
    ELSE <<FALSE, "too_long_>=_" \o ToString(MAX_SEC) \o "s">>

\* A keyword rule that reads no channel override.
rule_title_has_standup_noflag(v) ==
    LET title == casefold(v.title)
    IN  IF \E k \in 1..Len(STANDUP_KEYWORDS) : Contains(title, STANDUP_KEYWORDS[k])
        THEN <<TRUE, "">>
        ELSE <<FALSE, "no_standup_keyword">>

rule_title_has_standup(v) ==
    IF /\ v.channel_id # ""
       /\ v.channel_id \in DOMAIN CHANNEL_EXCEPTIONS
       /\ "allow_without_standup_keyword" \in CHANNEL_EXCEPTIONS[v.channel_id]
    THEN <<TRUE, "channel_exception:standup_keyword">>
    ELSE LET title == casefold(v.title)
         IN  IF \E k \in 1..Len(STANDUP_KEYWORDS) : Contains(title, STANDUP_KEYWORDS[k])
             THEN <<TRUE, "">>
             ELSE <<FALSE, "no_standup_keyword">>

rule_title_not_podcast(v) ==
    IF RegexSearch(RE_TITLE_PODCAST, v.title) THEN <<FALSE, "title_has_podcast">> ELSE <<TRUE, "">>

rule_title_not_improv(v) ==
    IF RegexSearch(RE_TITLE_IMPROV, v.title) THEN <<FALSE, "title_has_improv">> ELSE <<TRUE, "">>

rule_title_not_rozgony(v) ==
    IF RegexSearch(RE_TITLE_ROZGONY, v.title) THEN <<FALSE, "title_has_rozgony">> ELSE <<TRUE, "">>

rule_title_not_hvylyna(v) ==
    IF RegexSearch(RE_TITLE_HVYLYNA, v.title) THEN <<FALSE, "title_has_hvylyna">> ELSE <<TRUE, "">>

\* the first banned phrase, in list order, that the title contains
rule_no_banned_phrases(v) ==
    LET title_cf == casefold(v.title)
        hits == {k \in 1..Len(BANNED_TITLE_PHRASES) :
                    Contains(title_cf, casefold(BANNED_TITLE_PHRASES[k]))}
    IN  IF hits = {} THEN <<TRUE, "">>
        ELSE <<FALSE, "banned_phrase:" \o BANNED_TITLE_PHRASES[Min(hits)]>>

RULES ==
    <<"rule_after_cutoff", "rule_min_duration", "rule_max_duration",
      "rule_title_has_standup", "rule_title_not_podcast", "rule_title_not_improv",
      "rule_title_not_rozgony", "rule_title_not_hvylyna", "rule_no_banned_phrases">>

\* r(v) for a rule r of the list
CallRule(r, v) ==
    CASE r = "rule_after_cutoff" -> rule_after_cutoff(v)
      [] r = "rule_min_duration" -> rule_min_duration(v)
      [] r = "rule_max_duration" -> rule_max_duration(v)
      [] r = "rule_title_has_standup" -> rule_title_has_standup(v)
      [] r = "rule_title_not_podcast" -> rule_title_not_podcast(v)
      [] r = "rule_title_not_improv" -> rule_title_not_improv(v)
      [] r = "rule_title_not_rozgony" -> rule_title_not_rozgony(v)
      [] r = "rule_title_not_hvylyna" -> rule_title_not_hvylyna(v)
      [] r = "rule_no_banned_phrases" -> rule_no_banned_phrases(v)

\* A chain that evaluates every rule and reports every failure.
RECURSIVE apply_rules_all(_, _)
apply_rules_all(v, rules) ==
    IF rules = <<>> THEN <<TRUE, <<>>>>
    ELSE LET res == CallRule(Head(rules), v)
             rest == apply_rules_all(v, Tail(rules))
         IN  IF res[1] THEN rest ELSE <<FALSE, <<res[2]>> \o rest[2]>>

\* <<ok, reasons>>: the first failing rule ends the loop.
RECURSIVE apply_rules(_, _)
apply_rules(v, rules) ==
    IF rules = <<>> THEN <<TRUE, <<>>>>
    ELSE LET res == CallRule(Head(rules), v)
         IN  IF ~res[1] THEN <<FALSE, <<res[2]>>>> ELSE apply_rules(v, Tail(rules))

----------------------------------------------------------------------------
(* scripts/fetch.py: main. *)

\* The row of a video (fetch.py:343-355), each value as the csv writer
\* renders it: an integer in decimal, a count the platform hides (None) as
\* the empty cell.  published_at stays the day number, which orders as its
\* isoformat text does.  channel_title, comment_count and duration_min are
\* carried through unread and are left out.
FetchRow(v) ==
    [published_at |-> v.published_at,
     channel_id   |-> v.channel_id,
     title        |-> v.title,
     duration_sec |-> ToString(v.duration_sec),
     view_count   |-> IF v.view_count # None THEN ToString(v.view_count[1]) ELSE "",
     like_count   |-> IF v.like_count # None THEN ToString(v.like_count[1]) ELSE "",
     url          |-> v.url,
     video_id     |-> v.video_id]

\* dict(row) with reject_reason set
RejectedRow(row, reasons) ==
    [k \in (DOMAIN row) \cup {"reject_reason"} |->
        IF k = "reject_reason" THEN Join(reasons, ";") ELSE row[k]]

\* rejected_rows after the loop body (fetch.py:357-362)
RejectedAfter(ok, reasons, row) ==
    IF ~ok THEN Append(rejected_rows, RejectedRow(row, reasons)) ELSE rejected_rows

\* A loop body whose first branch lost its test.
AcceptedAfter_always(ok, row) == Append(accepted_rows, row)

\* accepted_rows after the loop body (fetch.py:357-358)
AcceptedAfter(ok, row) ==
    IF ok THEN Append(accepted_rows, row) ELSE accepted_rows

\* list.sort(key=lambda x: x[key], reverse=True): stable, so rows of equal
\* key keep their order.  x goes after every row whose key is >= x's.
RECURSIVE InsertDesc(_, _, _)
InsertDesc(sorted, x, key) ==
    IF sorted = <<>> THEN <<x>>
    ELSE IF Head(sorted)[key] >= x[key]
         THEN <<Head(sorted)>> \o InsertDesc(Tail(sorted), x, key)
         ELSE <<x>> \o sorted

\* A sort that puts the rows in rising order of the key.
RECURSIVE SortDesc_rising(_, _)
SortDesc_rising(rows, key) ==
    IF rows = <<>> THEN <<>>
    ELSE LET rest == SortDesc_rising(Tail(rows), key)
             small == SelectSeq(rest, LAMBDA r : r[key] < Head(rows)[key])
             large == SelectSeq(rest, LAMBDA r : r[key] >= Head(rows)[key])
         IN  small \o <<Head(rows)>> \o large

RECURSIVE SortDesc(_, _)
SortDesc(rows, key) ==
    IF rows = <<>> THEN <<>>
    ELSE InsertDesc(SortDesc(SubSeq(rows, 1, Len(rows) - 1), key), rows[Len(rows)], key)

\* The lines of channels.txt that name a channel (fetch.py:327-328).
RECURSIVE ChannelLines(_)
ChannelLines(lines) ==
    IF lines = <<>> THEN <<>>
    ELSE LET l == strip(Head(lines))
         IN  IF l # "" /\ ~StartsWith(l, "#")
             THEN <<l>> \o ChannelLines(Tail(lines))
             ELSE ChannelLines(Tail(lines))

\* The handles the platform knows (forHandle of fetch.py:103-107).
HANDLES == [h \in {"open"} |-> "UCopen"]

\* resolve_channel_id: <<TRUE, channel id>>, or <<FALSE, the error raised>>.
resolve_channel_id(identifier0) ==
    LET identifier == strip(identifier0)
    IN  IF StartsWith(identifier, "UC") THEN <<TRUE, identifier>>
        ELSE IF StartsWith(identifier, "@")
        THEN LET handle == SubSeq(identifier, 2, Len(identifier))
             IN  IF handle \in DOMAIN HANDLES THEN <<TRUE, HANDLES[handle]>>
                 ELSE <<FALSE, "RuntimeError">>
        ELSE <<FALSE, "ValueError">>

\* get_uploads_playlist: whether the platform has the channel (fetch.py:123).
get_uploads_playlist(channel_id) == channel_id \in DOMAIN uploads

\* PT#H#M#S to seconds; 0 when the text does not match in full.  The text
\* is not stripped.
parse_duration(d) ==
    IF ~StartsWith(d, "PT") THEN 0
    ELSE LET h == DurationPart(SubSeq(d, 3, Len(d)), "H")
             mm == DurationPart(h[2], "M")
             sec == DurationPart(mm[2], "S")
         IN  IF sec[2] # "" THEN 0
             ELSE h[1] * 3600 + mm[1] * 60 + sec[1]

\* to_int of a statistic of an item: None when the key is missing or the
\* text is no number (fetch.py:176-182).
to_int(st, key) ==
    IF key \in DOMAIN st /\ IsDigits(st[key]) THEN <<DigitsToInt(st[key])>> ELSE None

\* The Video of an item (fetch.py:168-198).
VideoOf(it) ==
    [video_id |-> it.id,
     url |-> "https://www.youtube.com/watch?v=" \o it.id,
     channel_id |-> it.channelId,
     title |-> it.title,
     published_at |-> it.publishedAt,
     duration_sec |-> parse_duration(it.duration),
     view_count |-> to_int(it.statistics, "viewCount"),
     like_count |-> to_int(it.statistics, "likeCount")]

RECURSIVE get_videos_full(_)
get_videos_full(its) ==
    IF its = <<>> THEN <<>> ELSE <<VideoOf(Head(its))>> \o get_videos_full(Tail(its))

\* fetch.py:327-331: read channels.txt and empty the lists.
FetchStart ==
    /\ pc = "fetch_start"
    /\ channels_txt.exists
    /\ channel_inputs' = ChannelLines(channels_txt.lines)
    /\ ci' = 0
    /\ videos' = <<>>
    /\ fi' = 0
    /\ accepted_rows' = <<>>
    /\ rejected_rows' = <<>>
    /\ pc' = "fetch_loop"
    /\ UNCHANGED <<scoreVars, filtered_csv, configVars, rateVars, outputs, debug_json>>

\* Whether fetch.py gets the videos of the channel identifier.
ChannelFound(ch) ==
    resolve_channel_id(ch)[1] /\ get_uploads_playlist(resolve_channel_id(ch)[2])

\* fetch.py:333-338: the next channel, resolved, and its videos.  videos
\* holds the videos of the channels so far, the loop over them goes on at fi.
NextChannel ==
    /\ pc = "fetch_loop"
    /\ fi = Len(videos)
    /\ ci < Len(channel_inputs)
    /\ ChannelFound(channel_inputs[ci + 1])
    /\ videos' = videos \o get_videos_full(uploads[resolve_channel_id(channel_inputs[ci + 1])[2]])
    /\ ci' = ci + 1
    /\ UNCHANGED <<scoreVars, pc, fi, accepted_rows, rejected_rows, filtered_csv, configVars,
                   rateVars, channel_inputs, outputs, debug_json>>

\* fetch.py ends with an error: channels.txt is missing (fetch.py:327), or
\* the next channel is not resolved or not found (fetch.py:334-335).
FetchAbort ==
    /\ \/ pc = "fetch_start" /\ ~channels_txt.exists
       \/ /\ pc = "fetch_loop"
          /\ fi = Len(videos)
          /\ ci < Len(channel_inputs)
          /\ ~ChannelFound(channel_inputs[ci + 1])
    /\ pc' = "aborted"
    /\ UNCHANGED <<scoreVars, fetchVars, filtered_csv, configVars, rateVars, runVars>>

\* One pass of the loop of fetch.py:340-362 over the next video.
FilterVideo ==
    /\ pc = "fetch_loop"
    /\ fi < Len(videos)
    /\ LET v == videos[fi + 1]
           res == apply_rules(v, RULES)
           row == FetchRow(v)
       IN  /\ accepted_rows' = AcceptedAfter(res[1], row)
           /\ rejected_rows' = RejectedAfter(res[1], res[2], row)
    /\ fi' = fi + 1
    /\ UNCHANGED <<scoreVars, videos, pc, filtered_csv, configVars, rateVars, runVars>>

\* The descriptions of the rules in the run summary (fetch.py:372-382).
CRITERIA_ORDER ==
    <<"published_at >= 2022-02-24",
      "duration > 4 min",
      "duration < 100 min",
      "title contains standup/stendap",
      "title does NOT contain podcast/podkast",
      "title does NOT contain improv/improvizatsiya",
      "title does NOT contain rozgony/zagony",
      "title does NOT contain hvylyna/uvahy",
      "title does NOT contain banned phrases">>

\* The files fetch.py writes (fetch.py:40-42).
FETCH_OUTPUTS ==
    {"out/filtered_videos.csv", "out/rejected_videos.csv", "out/filtered_videos_debug.json"}

\* The run summary of fetch.py:370-385; the sample of rejected rows is left out.
DebugJson(accepted, rejected) ==
    [exists |-> TRUE, criteria_order |-> CRITERIA_ORDER,
     counts |-> [accepted |-> Len(accepted), rejected |-> Len(rejected)]]

\* fetch.py:364-391: after the last channel, sort the accepted rows and
\* write the tables and the run summary.
FetchExport ==
    /\ pc = "fetch_loop"
    /\ fi = Len(videos)
    /\ ci = Len(channel_inputs)
    /\ accepted_rows' = SortDesc(accepted_rows, "published_at")
    /\ filtered_csv' = File(accepted_rows')
    /\ debug_json' = DebugJson(accepted_rows', rejected_rows)
    /\ outputs' = outputs \cup FETCH_OUTPUTS
    /\ pc' = "rate_start"
    /\ UNCHANGED <<scoreVars, videos, fi, rejected_rows, configVars, rateVars, channel_inputs, ci>>

----------------------------------------------------------------------------
(* scripts/rate.py: configuration and helpers. *)

INPUT_PERFORMERS ==
    File(<<"# canonical | aliases",
           "Ivan Petrenko | Ivan | ivan |  | Vanya",
           "",
           "Petro  Koval|Petro",
           "Olena">>)

\* Weights of the composite index, in hundredths.
W_TOTAL == 45
W_PEAK == 25
W_COUNT == 20
W_MINUTES == 10

SMOOTH_M_VIEWS == 50000

\* The clamp range of the multiplier, in thousandths.
ENG_MULT_CLAMP == <<850, 1150>>

\* The length of a video id in _YT_ID_RE and in extract_video_id.
YT_ID_LEN == 11

\* The places after which _YT_ID_RE looks for an id.
YT_ID_MARKERS == <<"v=", "/shorts/", "youtu.be/">>

\* [A-Za-z0-9_-]
IsIdChar(c) == IsWordChar(c) \/ c = "-"

\* [A-Za-z0-9_-]{11} matches s at position i
IdAt(s, i) ==
    /\ i + YT_ID_LEN - 1 <= Len(s)
    /\ \A k \in i..(i + YT_ID_LEN - 1) : IsIdChar(CharAt(s, k))

\* marker, then an id, at position i
MarkedIdAt(s, i, marker) ==
    /\ i + Len(marker) - 1 <= Len(s)
    /\ SubSeq(s, i, i + Len(marker) - 1) = marker
    /\ IdAt(s, i + Len(marker))

\* The id of a bare id alone; a URL gives none.
extract_video_id_whole(url_or_id) ==
    LET s == strip(url_or_id)
    IN  IF Len(s) = YT_ID_LEN /\ IdAt(s, 1) THEN <<s>> ELSE None

\* The id of a URL or of a bare id; None (the empty tuple) when there is none.
extract_video_id(url_or_id) ==
    LET s == strip(url_or_id)
        hits == {i \in 1..Len(s) :
                    \E m \in 1..Len(YT_ID_MARKERS) : MarkedIdAt(s, i, YT_ID_MARKERS[m])}
    IN  IF s = "" THEN None
        ELSE IF Len(s) = YT_ID_LEN /\ IdAt(s, 1) THEN <<s>>
        ELSE IF hits # {}
             THEN LET i == Min(hits)
                      m == Min({k \in 1..Len(YT_ID_MARKERS) :
                                   MarkedIdAt(s, i, YT_ID_MARKERS[k])})
                      from == i + Len(YT_ID_MARKERS[m])
                  IN  <<SubSeq(s, from, from + YT_ID_LEN - 1)>>
             ELSE None

RECURSIVE RemoveSpaces(_)
RemoveSpaces(s) ==
    IF s = "" THEN ""
    ELSE IF Head(s) = " " THEN RemoveSpaces(Tail(s)) ELSE Head(s) \o RemoveSpaces(Tail(s))

\* parse_int of a cell: the cells of the model are empty, decimal digits, or
\* text that float() refuses; any failure gives the default.
parse_int(x, default) ==
    LET s == RemoveSpaces(strip(x))
    IN  IF s = "" THEN default
        ELSE IF IsDigits(s) THEN DigitsToInt(s)
        ELSE default

\* The length of the longest prefix of digits.
\* PT#H#M#S to seconds; 0 when the text does not match in full.
parse_duration_iso8601(d0) ==
    LET d == strip(d0)
    IN  IF ~StartsWith(d, "PT") THEN 0
        ELSE LET h == DurationPart(SubSeq(d, 3, Len(d)), "H")
                 mm == DurationPart(h[2], "M")
                 sec == DurationPart(mm[2], "S")
             IN  IF sec[2] # "" THEN 0
                 ELSE h[1] * 3600 + mm[1] * 60 + sec[1]

safe_casefold(s) == casefold(s)

\* re.sub(r"\s+", " ", s), left to right
RECURSIVE CollapseSpaces(_)
CollapseSpaces(s) ==
    IF s = "" THEN ""
    ELSE IF IsSpace(Head(s))
         THEN " " \o CollapseSpaces(LStrip(s))
         ELSE Head(s) \o CollapseSpaces(Tail(s))

normalize_spaces(s) == strip(CollapseSpaces(s))

\* str.split(sep) for a separator of one character
RECURSIVE Split(_, _)
Split(s, sep) ==
    LET at == {k \in 1..Len(s) : CharAt(s, k) = sep}
    IN  IF at = {} THEN <<s>>
        ELSE <<SubSeq(s, 1, Min(at) - 1)>> \o Split(SubSeq(s, Min(at) + 1, Len(s)), sep)

\* (excluded ids, excluded urls) of exceptions.txt
load_exceptions(path) ==
    LET lines == {strip(path.lines[i]) : i \in 1..Len(path.lines)}
        kept == {l \in lines : l # "" /\ ~StartsWith(l, "#")}
    IN  IF ~path.exists THEN <<{}, {}>>
        ELSE <<{extract_video_id(l)[1] : l \in {k \in kept : extract_video_id(k) # None}},
               kept>>

----------------------------------------------------------------------------
(* scripts/rate.py: the alias table. *)

RECURSIVE DropEmpty(_)
DropEmpty(parts) ==
    IF parts = <<>> THEN <<>>
    ELSE IF Head(parts) = "" THEN DropEmpty(Tail(parts))
    ELSE <<Head(parts)>> \o DropEmpty(Tail(parts))

\* The aliases of a line, without repeats up to case (rate.py:175-183).
RECURSIVE DedupAliases(_, _, _)
DedupAliases(parts, seen, aliases) ==
    IF parts = <<>> THEN aliases
    ELSE LET a == normalize_spaces(Head(parts))
         IN  IF a = "" \/ safe_casefold(a) \in seen
             THEN DedupAliases(Tail(parts), seen, aliases)
             ELSE DedupAliases(Tail(parts), seen \cup {safe_casefold(a)},
                               Append(aliases, a))

\* dict[key] = value on an ordered dict, a list of <<key, value>>
DictSet(dict, key, value) ==
    IF \E i \in 1..Len(dict) : dict[i][1] = key
    THEN [i \in 1..Len(dict) |-> IF dict[i][1] = key THEN <<key, value>> ELSE dict[i]]
    ELSE Append(dict, <<key, value>>)

DictHas(dict, key) == \E i \in 1..Len(dict) : dict[i][1] = key

DictGet(dict, key, default) ==
    IF DictHas(dict, key)
    THEN dict[CHOOSE i \in 1..Len(dict) : dict[i][1] = key][2]
    ELSE default

\* canonical_to_aliases (rate.py:160-185)
RECURSIVE CanonicalToAliases(_, _)
CanonicalToAliases(lines, dict) ==
    IF lines = <<>> THEN dict
    ELSE LET line == strip(Head(lines))
             split == Split(line, "|")
             parts == DropEmpty([i \in 1..Len(split) |-> normalize_spaces(split[i])])
         IN  IF line = "" \/ StartsWith(line, "#") \/ parts = <<>>
             THEN CanonicalToAliases(Tail(lines), dict)
             ELSE CanonicalToAliases(Tail(lines),
                    DictSet(dict, parts[1], DedupAliases(parts, {}, <<>>)))

\* The compiled list (rate.py:189-195): <<canonical, alias>> stands for the
\* pattern (?<!\w)alias(?!\w) compiled with IGNORECASE | UNICODE.
RECURSIVE CompileLine(_, _)
CompileLine(canonical, aliases) ==
    IF aliases = <<>> THEN <<>>
    ELSE LET a == strip(Head(aliases))
         IN  (IF a = "" THEN <<>> ELSE <<(<<canonical, a>>)>>)
             \o CompileLine(canonical, Tail(aliases))

RECURSIVE CompileAliases(_)
CompileAliases(dict) ==
    IF dict = <<>> THEN <<>>
    ELSE CompileLine(Head(dict)[1], Head(dict)[2]) \o CompileAliases(Tail(dict))

load_performers(path) ==
    LET dict == CanonicalToAliases(path.lines, <<>>)
    IN  <<dict, CompileAliases(dict)>>

compiled_aliases == load_performers(INPUT_PERFORMERS)[2]

\* The pattern of an alias without its lookbehind and lookahead.
AliasSearch_substring(alias, t) == Contains(casefold(t), casefold(alias))

\* rx.search(t) for the pattern (?<!\w)alias(?!\w), case ignored: the
\* characters are compared folded, one by one
AliasSearch(alias, t) ==
    LET ft == casefold(t)
        fa == casefold(alias)
    IN  \E i \in 1..(Len(t) - Len(alias) + 1) :
        LET j == i + Len(alias) - 1
        IN  /\ SubSeq(ft, i, j) = fa
            /\ (i = 1 \/ ~IsWordChar(CharAt(t, i - 1)))
            /\ (j = Len(t) \/ ~IsWordChar(CharAt(t, j + 1)))

\* The set of canonical names with a pattern that matches the title.
match_performers_in_title(title, compiled) ==
    LET t == normalize_spaces(title)
    IN  {compiled[i][1] : i \in {k \in 1..Len(compiled) : AliasSearch(compiled[k][2], t)}}

----------------------------------------------------------------------------
(* scripts/rate.py: reading the video table. *)

\* r.get(k1) or r.get(k2) or ...: the first cell that is present and not
\* empty, else the empty text
RECURSIVE FirstCell(_, _)
FirstCell(r, keys) ==
    IF keys = <<>> THEN ""
    ELSE IF Head(keys) \in DOMAIN r /\ r[Head(keys)] # ""
         THEN r[Head(keys)]
         ELSE FirstCell(r, Tail(keys))

\* The VideoRow of a table row (rate.py:218-257); its video_id may be empty.
\* published_at, a text rate.py only copies, stays the table's day number;
\* channel_title is left out.
ParseCsvRow(r) ==
    LET url0 == strip(FirstCell(r, <<"url", "video_url">>))
        vid0 == strip(FirstCell(r, <<"video_id", "id">>))
        found == extract_video_id(url0)
        vid == IF vid0 # "" THEN vid0 ELSE IF found # None THEN found[1] ELSE ""
        url == IF url0 = "" /\ vid # ""
               THEN "https://www.youtube.com/watch?v=" \o vid ELSE url0
        dur == parse_int(FirstCell(r, <<"duration_sec", "duration_seconds",
                                        "length_seconds", "lengthSeconds">>), 0)
        iso == strip(FirstCell(r, <<"duration", "contentDetails.duration">>))
    IN  [video_id     |-> vid,
         url          |-> url,
         title        |-> strip(FirstCell(r, <<"title">>)),
         view_count   |-> parse_int(FirstCell(r, <<"view_count", "views",
                                                   "viewCount", "viewcount">>), 0),
         like_count   |-> parse_int(FirstCell(r, <<"like_count", "likes",
                                                   "likeCount", "likecount">>), 0),
         duration_sec |-> IF dur = 0 /\ StartsWith(iso, "PT")
                          THEN parse_duration_iso8601(iso) ELSE dur,
         published_at |-> r.published_at,
         channel_id   |-> strip(FirstCell(r, <<"channel_id", "channelId">>))]

\* The rows of the table in order; a row without an id is skipped (rate.py:243).
RECURSIVE read_videos_csv(_)
read_videos_csv(path) ==
    IF path.lines = <<>> THEN <<>>
    ELSE LET v == ParseCsvRow(Head(path.lines))
             rest == read_videos_csv(File(Tail(path.lines)))
         IN  IF v.video_id = "" THEN rest ELSE <<v>> \o rest

----------------------------------------------------------------------------
(* scripts/rate.py: scores.  A float is a rational <<numerator, denominator>>  *)
(* where it is compared for equality, and a fixed-point integer where it is   *)
(* only ordered: logarithms in units of 1/LogScale, scores in units of        *)
(* 1/(100*LogScale), the multiplier in thousandths.                            *)

\* Units per 1.0 of a fixed-point logarithm.
LogScale == 1000

\* z + z^3/3 + z^5/5 + ... in fixed point, from the term pow = z^j
RECURSIVE AtanhSum(_, _, _)
AtanhSum(z, pow, j) ==
    IF pow = 0 THEN 0
    ELSE (pow \div j) + AtanhSum(z, (((pow * z) \div LogScale) * z) \div LogScale, j + 2)

Ln2Fx == 2 * AtanhSum(LogScale \div 3, LogScale \div 3, 1)

RECURSIVE FloorLog2(_)
FloorLog2(n) == IF n < 2 THEN 0 ELSE 1 + FloorLog2(n \div 2)

\* ln n for an integer n >= 1: n = 2^k * m, ln m = 2 atanh((m-1)/(m+1))
LnFx(n) ==
    LET k == FloorLog2(n)
        p == 2 ^ k
        z == (LogScale * (n - p)) \div (n + p)
    IN  k * Ln2Fx + 2 * AtanhSum(z, z, 1)

\* math.log1p(max(0, x)) of a rational x
Log1pFx(x) ==
    IF x[1] <= 0 THEN 0 ELSE LnFx(x[2] + x[1]) - LnFx(x[2])

\* An index that takes the minutes off.
compute_base_score_penalty(total_views, peak_views, video_count, total_minutes) ==
    (W_TOTAL * Log1pFx(<<total_views, 1>>)) + (W_PEAK * Log1pFx(<<peak_views, 1>>))
    + (W_COUNT * Log1pFx(<<video_count, 1>>)) - (W_MINUTES * Log1pFx(total_minutes))

\* total_minutes is the rational <<seconds, 60>>
compute_base_score(total_views, peak_views, video_count, total_minutes) ==
    (W_TOTAL * Log1pFx(<<total_views, 1>>)) + (W_PEAK * Log1pFx(<<peak_views, 1>>))
    + (W_COUNT * Log1pFx(<<video_count, 1>>)) + (W_MINUTES * Log1pFx(total_minutes))

\* A clamp with no upper end.
clamp_nohi(x, lo, hi) == IF lo > x THEN lo ELSE x

clamp(x, lo, hi) ==
    LET m == IF hi < x THEN hi ELSE x
    IN  IF lo > m THEN lo ELSE m

\* n/d in fixed point with the given number of decimal digits, digit by digit
RECURSIVE FxDiv(_, _, _)
FxDiv(n, d, digits) ==
    IF digits = 0 THEN n \div d
    ELSE (n \div d) * (10 ^ digits) + FxDiv((n % d) * 10, d, digits - 1)

RatEq(a, b) == a[1] * b[2] = b[1] * a[2]

RECURSIVE Gcd(_, _)
Gcd(a, b) == IF b = 0 THEN a ELSE Gcd(b, a % b)

\* A float is one value however the quotient is written: the rational in
\* lowest terms.
Reduce(r) ==
    LET g == Gcd(r[1], r[2])
    IN  IF g = 0 THEN r ELSE <<r[1] \div g, r[2] \div g>>

RECURSIVE SumSeq(_)
SumSeq(xs) == IF xs = <<>> THEN 0 ELSE Head(xs) + SumSeq(Tail(xs))

MaxSeq(xs) == CHOOSE x \in {xs[i] : i \in 1..Len(xs)} : \A i \in 1..Len(xs) : xs[i] <= x

\* A smoothed rate that is the raw like rate, the prior left out.
LikeRateSmooth_raw(total_likes, total_views, prior) ==
    IF total_views > 0 THEN <<total_likes, total_views>> ELSE <<0, 1>>

\* (total_likes + M*p0) / (total_views + M) for the rational p0 (rate.py:399)
LikeRateSmooth(total_likes, total_views, prior) ==
    IF total_views + SMOOTH_M_VIEWS > 0
    THEN Reduce(<<total_likes * prior[2] + SMOOTH_M_VIEWS * prior[1],
                  prior[2] * (total_views + SMOOTH_M_VIEWS)>>)
    ELSE <<0, 1>>

\* 1.0 + 0.5 * ((like_rate_smooth - p0) / p0), clamped, in thousandths
EngMult(like_rate_smooth, prior) ==
    LET num == like_rate_smooth[2] * prior[1] + like_rate_smooth[1] * prior[2]
        den == 2 * like_rate_smooth[2] * prior[1]
    IN  clamp(FxDiv(num, den, 3), ENG_MULT_CLAMP[1], ENG_MULT_CLAMP[2])

\* The rating row of a performer (rate.py:390-428), before its rank.
RatingRow(performer, views_list, prior) ==
    LET total_views == SumSeq(views_list)
        peak_views == IF views_list # <<>> THEN MaxSeq(views_list) ELSE 0
        video_count == Len(views_list)
        total_minutes == <<DictGet(per_minutes, performer, 0), 60>>
        total_likes == DictGet(per_likes, performer, 0)
        base_score == compute_base_score(total_views, peak_views, video_count, total_minutes)
        like_rate == IF total_views > 0 THEN <<total_likes, total_views>> ELSE <<0, 1>>
        like_rate_smooth == LikeRateSmooth(total_likes, total_views, prior)
        on == ENABLE_ENGAGEMENT_MULTIPLIER /\ prior[1] > 0
        eng_mult == IF on THEN EngMult(like_rate_smooth, prior) ELSE 1000
    IN  [performer |-> performer,
         score |-> base_score,
         score_with_engagement |-> IF on THEN (base_score * eng_mult) \div 1000 ELSE base_score,
         eng_mult |-> eng_mult,
         total_views |-> total_views,
         peak_views |-> peak_views,
         video_count |-> video_count,
         total_minutes |-> total_minutes,
         total_likes |-> total_likes,
         like_rate |-> like_rate,
         like_rate_smooth |-> like_rate_smooth]

\* The rows of the performers in the order of per_views (rate.py:389).
RECURSIVE RatingRows(_, _)
RatingRows(items, prior) ==
    IF items = <<>> THEN <<>>
    ELSE <<RatingRow(Head(items)[1], Head(items)[2], prior)>> \o RatingRows(Tail(items), prior)

\* enumerate(rating_rows, start=1) (rate.py:434-435)
AssignRanks(rows) ==
    [i \in 1..Len(rows) |->
        [k \in (DOMAIN rows[i]) \cup {"rank"} |-> IF k = "rank" THEN i ELSE rows[i][k]]]

----------------------------------------------------------------------------
(* scripts/rate.py: main. *)

\* The exception test of the loop (rate.py:316).
IsException_idonly(v) == v.video_id \in excluded_ids

IsException(v) == v.video_id \in excluded_ids \/ v.url \in excluded_urls

\* The checks of the loop in the order 0 performers, several, exception.
DropReason_late(v, matched) ==
    IF Cardinality(matched) = 0 THEN "no_performer_in_title"
    ELSE IF Cardinality(matched) > 1 THEN "multiple_performers_in_title"
    ELSE IF IsException(v) THEN "exception"
    ELSE ""

\* The checks of the loop with "several" read as more than two.
DropReason_two(v, matched) ==
    IF IsException(v) THEN "exception"
    ELSE IF Cardinality(matched) = 0 THEN "no_performer_in_title"
    ELSE IF Cardinality(matched) > 2 THEN "multiple_performers_in_title"
    ELSE ""

\* The checks of the loop with a title of several performers given to one
\* of them once a video of theirs has been attributed.
DropReason_seen(v, matched) ==
    IF IsException(v) THEN "exception"
    ELSE IF Cardinality(matched) = 0 THEN "no_performer_in_title"
    ELSE IF Cardinality(matched) > 1 /\ \A x \in matched : ~DictHas(per_views, x)
    THEN "multiple_performers_in_title"
    ELSE ""

\* The checks of the loop in their order (rate.py:316, 332, 346): the reason
\* the video is dropped for, or the empty text when it is attributed.
DropReason(v, matched) ==
    IF IsException(v) THEN "exception"
    ELSE IF Cardinality(matched) = 0 THEN "no_performer_in_title"
    ELSE IF Cardinality(matched) > 1 THEN "multiple_performers_in_title"
    ELSE ""

\* The fields every dropped row has (rate.py:317-327); channel_title left out.
DroppedRow(v, reason) ==
    [video_id |-> v.video_id, url |-> v.url, title |-> v.title,
     view_count |-> v.view_count, like_count |-> v.like_count,
     duration_sec |-> v.duration_sec, published_at |-> v.published_at,
     drop_reason |-> reason]

\* Text order: Python orders str by code point.
CharOrder == " !#%&-./0123456789:=?ABCDEFGHIJKLMNOPQRSTUVWXYZ_abcdefghijklmnopqrstuvwxyz|"

CharRank(c) == CHOOSE i \in 1..Len(CharOrder) : CharAt(CharOrder, i) = c

RECURSIVE StrLess(_, _)
StrLess(a, b) ==
    IF b = "" THEN FALSE
    ELSE IF a = "" THEN TRUE
    ELSE IF Head(a) = Head(b) THEN StrLess(Tail(a), Tail(b))
    ELSE CharRank(Head(a)) < CharRank(Head(b))

\* sorted(S) for a set of texts
RECURSIVE SortedTexts(_)
SortedTexts(S) ==
    IF S = {} THEN <<>>
    ELSE LET least == CHOOSE x \in S : \A y \in S \ {x} : StrLess(x, y)
         IN  <<least>> \o SortedTexts(S \ {least})

\* The row of a title with several performers (rate.py:347-358).
MultiRow(v, matched) ==
    LET row == DroppedRow(v, "multiple_performers_in_title")
    IN  [k \in (DOMAIN row) \cup {"matched_performers"} |->
            IF k = "matched_performers" THEN Join(SortedTexts(matched), "; ") ELSE row[k]]

\* rate.py:363-375; duration_min, derived from duration_sec, is left out.
CleanRow(v, performer) ==
    [performer |-> performer, video_id |-> v.video_id, url |-> v.url,
     title |-> v.title, view_count |-> v.view_count, like_count |-> v.like_count,
     duration_sec |-> v.duration_sec, published_at |-> v.published_at,
     channel_id |-> v.channel_id]

\* A total that counts the likes of a video as views.
GlobalViewsAfter_likes(v) == global_views + v.like_count

\* global_views += v.view_count (rate.py:381)
GlobalViewsAfter(v) == global_views + v.view_count

\* rate.py:291-312: the inputs are there; load the tables, empty the accumulators.
RateStart ==
    /\ pc = "rate_start"
    /\ filtered_csv.exists
    /\ performers_txt.exists
    /\ excluded_ids' = load_exceptions(exceptions_txt)[1]
    /\ excluded_urls' = load_exceptions(exceptions_txt)[2]
    /\ rate_videos' = read_videos_csv(filtered_csv)
    /\ ri' = 0
    /\ clean_rows' = <<>>
    /\ dropped_rows' = <<>>
    /\ per_views' = <<>>
    /\ per_minutes' = <<>>
    /\ per_likes' = <<>>
    /\ global_views' = 0
    /\ global_likes' = 0
    /\ pc' = "rate_loop"
    /\ UNCHANGED <<scoreVars, configVars, fetchVars, filtered_csv, p0, rating_rows, runVars>>

\* rate.py:293-296: a missing input ends the run.
RateAbort ==
    /\ pc = "rate_start"
    /\ ~(filtered_csv.exists /\ performers_txt.exists)
    /\ pc' = "aborted"
    /\ UNCHANGED <<scoreVars, configVars, fetchVars, filtered_csv, rateVars, runVars>>

\* One pass of the loop of rate.py:314-382 over the next video.
RateVideo ==
    /\ pc = "rate_loop"
    /\ ri < Len(rate_videos)
    /\ ri' = ri + 1
    /\ LET v == rate_videos[ri + 1]
           matched == match_performers_in_title(v.title, compiled_aliases)
           reason == DropReason(v, matched)
       IN  IF reason # ""
           THEN /\ dropped_rows' = Append(dropped_rows,
                       IF reason = "multiple_performers_in_title"
                       THEN MultiRow(v, matched) ELSE DroppedRow(v, reason))
                /\ UNCHANGED <<clean_rows, per_views, per_minutes, per_likes,
                               global_views, global_likes>>
           ELSE LET performer == CHOOSE x \in matched : TRUE
                IN  /\ clean_rows' = Append(clean_rows, CleanRow(v, performer))
                    /\ per_views' = DictSet(per_views, performer,
                                       Append(DictGet(per_views, performer, <<>>), v.view_count))
                    /\ per_minutes' = DictSet(per_minutes, performer,
                                       DictGet(per_minutes, performer, 0) + v.duration_sec)
                    /\ per_likes' = DictSet(per_likes, performer,
                                       DictGet(per_likes, performer, 0) + v.like_count)
                    /\ global_views' = GlobalViewsAfter(v)
                    /\ global_likes' = global_likes + v.like_count
                    /\ UNCHANGED dropped_rows
    /\ UNCHANGED <<scoreVars, configVars, fetchVars, filtered_csv, pc, excluded_ids,
                   excluded_urls, rate_videos, p0, rating_rows, runVars>>

\* The prior mean like rate (rate.py:385).
PriorOf(likes, views) == IF views > 0 THEN Reduce(<<likes, views>>) ELSE <<0, 1>>

\* The files rate.py writes (rate.py:40-42).
RATE_OUTPUTS == {"out/rating.csv", "out/videos_clean.csv", "out/videos_dropped.csv"}

\* rate.py:384-451: the prior, the rating rows in the order of per_views,
\* the sort by the active key, the ranks, and the three tables written.
RateScore ==
    /\ pc = "rate_loop"
    /\ ri = Len(rate_videos)
    /\ p0' = PriorOf(global_likes, global_views)
    /\ LET rows == RatingRows(per_views, p0')
           sort_key == IF ENABLE_ENGAGEMENT_MULTIPLIER
                       THEN "score_with_engagement" ELSE "score"
       IN  rating_rows' = AssignRanks(SortDesc(rows, sort_key))
    /\ outputs' = outputs \cup RATE_OUTPUTS
    /\ pc' = "done"
    /\ UNCHANGED <<scoreVars, configVars, fetchVars, filtered_csv, excluded_ids, excluded_urls,
                   rate_videos, ri, clean_rows, dropped_rows, per_views, per_minutes,
                   per_likes, global_views, global_likes, channel_inputs, ci, debug_json>>

\* The files export_json.py writes (export_json.py:74-75).
EXPORT_OUTPUTS == {"docs/data/videos.json", "docs/data/rating.json"}

\* export_json.py:33-77, run after rate.py: the two tables of rate.py are
\* there, and their rows are written as JSON.
ExportJson ==
    /\ pc = "done"
    /\ {"out/videos_clean.csv", "out/rating.csv"} \subseteq outputs
    /\ outputs' = outputs \cup EXPORT_OUTPUTS
    /\ pc' = "exported"
    /\ UNCHANGED <<scoreVars, configVars, fetchVars, filtered_csv, rateVars, channel_inputs, ci,
                   debug_json>>

----------------------------------------------------------------------------
(* The inputs of a run. *)

\* f"https://www.youtube.com/watch?v={id}" (fetch.py:186)
WatchUrl(id) == "https://www.youtube.com/watch?v=" \o id

Video(id, channel, title, published, duration, views, likes) ==
    [video_id |-> id, url |-> WatchUrl(id), channel_id |-> channel, title |-> title,
     published_at |-> published, duration_sec |-> duration,
     view_count |-> views, like_count |-> likes]

\* The channel_exceptions.txt of a run.
ChannelExceptionFiles ==
    {NoFile,
     File(<<"# overrides", "UCopen | allow_without_standup_keyword", "",
            "UCopen|keep_shorts">>)}

\* The exceptions.txt of a run: missing, a bare id, or URLs.
ExceptionFiles ==
    {NoFile,
     File(<<"# excluded", "AAAAAAAAAA1", "">>),
     File(<<"https://youtu.be/BBBBBBBBBB2?t=5", " https://example.com/clip ", "vid.5">>)}

\* Titles: with and without a signature keyword, an excluded topic, a banned
\* phrase, and the aliases of no, one or two performers.
TitleSet ==
    {"", "Standup Ivan", "stand up: Petro", "Ivan  Petrenko STENDAP",
     "Ivan i Petro standup", "Ivanenko standup", "Petro podcast",
     "standup Improv PODKAST Vlog Ivan", "Petro zagony standup",
     "uvagy! Vanya", "Olena StandUp kraud-vork", "Olena live"}

PublishedSet == {20220223, 20220224}

\* Durations as the platform writes them, at and next to the two limits.
DurationTexts == {"PT", "PT4M", "PT4M1S", "PT1H59M59S", "PT2H"}

\* Texts that are no PT#H#M#S duration.
MalformedDurations == {"", "P1D", "PT5M ", "5:00", "PT5M30", "pt5m", "PT1M2H"}

\* Every single video over the field values above.
Item(id, channel, title, published, duration, statistics) ==
    [id |-> id, channelId |-> channel, title |-> title, publishedAt |-> published,
     duration |-> duration, statistics |-> statistics]

StatisticsSet == {[likeCount |-> "1"], [viewCount |-> "3", likeCount |-> "1"]}

\* Every single item over the field values above, and one item for each
\* text that is no duration.
ItemDomain ==
    {Item("AAAAAAAAAA1", c, t, p, d, st) :
        c \in {"UCmain", "UCopen"}, t \in TitleSet, p \in PublishedSet,
        d \in DurationTexts, st \in StatisticsSet}
    \cup {Item("AAAAAAAAAA1", "UCmain", "Standup Ivan", 20220224, d,
                [viewCount |-> "3", likeCount |-> "1"]) : d \in MalformedDurations}

\* The videos the batches of a pipeline run are drawn from.
Catalogue ==
    {Video("AAAAAAAAAA1", "UCmain", "Standup Ivan", 20220225, 600, <<3>>, <<1>>),
     Video("DDDDDDDDDD4", "UCmain", "stand up: Petro", 20220224, 241, None, <<2>>),
     Video("CCCCCCCCCC3", "UCopen", "Vanya  live", 20220301, 7199, <<5>>, None),
     Video("BBBBBBBBBB2", "UCmain", "Ivan i Petro STENDAP", 20220224, 300, <<2>>, <<1>>),
     Video("AAAAAAAAAA1", "UCmain", "Petro podcast", 20220101, 100, <<4>>, <<1>>)}

Batches(S, n) == UNION {[1..k -> S] : k \in 0..n}

\* A row of a video table as rate.py may be handed one; the cells are text.
\* The headers are those of fetch.py or the other spellings rate.py reads.
RowCatalogue ==
    {[video_id |-> "", url |-> WatchUrl("AAAAAAAAAA1"), title |-> " Standup Ivan ",
      view_count |-> "0 3", like_count |-> "1", duration_sec |-> "600",
      published_at |-> 20220225, channel_id |-> "UCmain"],
     [id |-> "BBBBBBBBBB2", video_url |-> "", title |-> "Petro live",
      views |-> "", likes |-> "n/a", duration |-> "PT4M1S",
      published_at |-> 20220224, channel_id |-> "UCmain"],
     [video_id |-> "DDDDDDDDDD4", url |-> "https://example.com/clip", title |-> "Petro i Olena",
      view_count |-> "2", like_count |-> "1", duration_sec |-> "300",
      published_at |-> 20220224, channel_id |-> ""],
     [video_id |-> "", url |-> "https://example.com/talk", title |-> "Olena standup",
      view_count |-> "7", like_count |-> "2", duration_sec |-> "900",
      published_at |-> 20220225, channel_id |-> "UCmain"],
     [video_id |-> "EEEEEEEEEE5", url |-> "https://example.com/clip", title |-> "Olena  standup",
      view_count |-> "0", like_count |-> "3", duration_sec |-> "60",
      published_at |-> 20220225, channel_id |-> "UCmain"],
     [video_id |-> "FFFFFFFFFF6", url |-> "", title |-> "Ivanenko, nobody here",
      view_count |-> "9", like_count |-> "4", duration_sec |-> "PT",
      published_at |-> 20220225, channel_id |-> "UCmain"]}

----------------------------------------------------------------------------
(* The specifications. *)

\* compute_base_score has not been called.
ScoreInit ==
    /\ metrics = [total_views |-> 0, peak_views |-> 0, video_count |-> 0,
                  total_seconds |-> 0]
    /\ prev_score = None
    /\ score_value = None

\* The run has read no channel and written no file.
RunInit ==
    /\ channel_inputs = <<>>
    /\ ci = 0
    /\ outputs = {}
    /\ debug_json = NoFile

\* The channels.txt of the repository: a comment and identifiers.
CHANNELS_TXT == File(<<"# channels", "UCmain", " @open ", "">>)

RateInit ==
    /\ excluded_ids = {}
    /\ excluded_urls = {}
    /\ rate_videos = <<>>
    /\ ri = 0
    /\ clean_rows = <<>>
    /\ dropped_rows = <<>>
    /\ per_views = <<>>
    /\ per_minutes = <<>>
    /\ per_likes = <<>>
    /\ global_views = 0
    /\ global_likes = 0
    /\ p0 = <<0, 1>>
    /\ rating_rows = <<>>

\* run_pipeline.py: fetch.py starts; rate.py has not run.  The engagement
\* flag has the value of the source (rate.py:57).
Init ==
    /\ \E f \in ChannelExceptionFiles : CHANNEL_EXCEPTIONS = load_channel_exceptions(f)
    /\ exceptions_txt \in ExceptionFiles
    /\ ENABLE_ENGAGEMENT_MULTIPLIER = FALSE
    /\ channels_txt = File(<<>>)
    /\ performers_txt = INPUT_PERFORMERS
    /\ uploads = <<>>
    /\ pc = "fetch_loop"
    /\ videos \in Batches(Catalogue, MaxVideos)
    /\ fi = 0
    /\ accepted_rows = <<>>
    /\ rejected_rows = <<>>
    /\ filtered_csv = NoFile
    /\ RateInit
    /\ RunInit
    /\ ScoreInit

\* fetch.py, then rate.py (run_pipeline.py:15-16)
Next == FilterVideo \/ FetchExport \/ RateStart \/ RateVideo \/ RateScore

Spec == Init /\ [][Next]_vars

\* fetch.py run by itself on one channel with one video, over every value
\* of the fields of its item.
InitFetch ==
    /\ \E f \in ChannelExceptionFiles : CHANNEL_EXCEPTIONS = load_channel_exceptions(f)
    /\ exceptions_txt = NoFile
    /\ ENABLE_ENGAGEMENT_MULTIPLIER = FALSE
    /\ \E it \in ItemDomain :
           /\ channels_txt = File(<<it.channelId>>)
           /\ uploads = [c \in {it.channelId} |-> <<it>>]
    /\ performers_txt = INPUT_PERFORMERS
    /\ pc = "fetch_start"
    /\ videos = <<>>
    /\ fi = 0
    /\ accepted_rows = <<>>
    /\ rejected_rows = <<>>
    /\ filtered_csv = NoFile
    /\ RateInit
    /\ RunInit
    /\ ScoreInit

NextFetch == FetchStart \/ NextChannel \/ FilterVideo \/ FetchExport

SpecFetch == InitFetch /\ [][NextFetch]_vars

\* rate.py run by itself on a video table that is there or not.
InitRate ==
    /\ CHANNEL_EXCEPTIONS = <<>>
    /\ exceptions_txt \in ExceptionFiles
    /\ ENABLE_ENGAGEMENT_MULTIPLIER \in BOOLEAN
    /\ channels_txt = NoFile
    /\ performers_txt = INPUT_PERFORMERS
    /\ uploads = <<>>
    /\ pc = "rate_start"
    /\ videos = <<>>
    /\ fi = 0
    /\ accepted_rows = <<>>
    /\ rejected_rows = <<>>
    /\ filtered_csv \in {NoFile} \cup {File(b) : b \in Batches(RowCatalogue, MaxVideos)}
    /\ RateInit
    /\ RunInit
    /\ ScoreInit

NextRate == RateStart \/ RateAbort \/ RateVideo \/ RateScore

SpecRate == InitRate /\ [][NextRate]_vars

\* Titles around the edges of an alias: inside a longer word, next to a
\* digit or an underscore, next to punctuation, in another case.
BoundaryTitles ==
    {"Ivanenko standup", "Ivan speaks", "IVAN speaks", "xIvan speaks", "Ivan_ speaks",
     "Ivan2 speaks", "2Ivan", "(ivan)", "Ivan, Petro!", "Ivanenko and petro speak",
     "Vanya", "Vanyas", "ivan   petrenko", "Olena-Petro/koval", "olenaPetro", ""}

\* The id and the URL of a row: the URL of the id, a URL that names no id,
\* another such URL, and an id that is not one of the platform's.
IdUrlSet ==
    {<<"BBBBBBBBBB2", WatchUrl("BBBBBBBBBB2")>>,
     <<"EEEEEEEEEE5", "https://example.com/clip">>,
     <<"EEEEEEEEEE5", "https://example.com/clip2">>,
     <<"vid.5", "">>}

TableRow(id, url, title) ==
    [video_id |-> id, url |-> url, title |-> title, view_count |-> "3",
     like_count |-> "1", duration_sec |-> "600", published_at |-> 20220225,
     channel_id |-> "UCmain"]

\* rate.py run by itself on a table of one row.
InitRateOne ==
    /\ CHANNEL_EXCEPTIONS = <<>>
    /\ exceptions_txt \in ExceptionFiles
    /\ ENABLE_ENGAGEMENT_MULTIPLIER = FALSE
    /\ channels_txt = NoFile
    /\ performers_txt = INPUT_PERFORMERS
    /\ uploads = <<>>
    /\ pc = "rate_start"
    /\ videos = <<>>
    /\ fi = 0
    /\ accepted_rows = <<>>
    /\ rejected_rows = <<>>
    /\ filtered_csv \in {File(<<TableRow(iu[1], iu[2], t)>>) : iu \in IdUrlSet, t \in BoundaryTitles}
    /\ RateInit
    /\ RunInit
    /\ ScoreInit

NextRateOne == RateStart \/ RateVideo \/ RateScore

SpecRateOne == InitRateOne /\ [][NextRateOne]_vars

----------------------------------------------------------------------------
(* The claims.  What a claim expects of a record is written here from the   *)
(* claim's words, over the record's own fields, apart from the operators    *)
(* above that model the code.                                                *)

\* Whether the channel carries the override flag of the keyword rule.
ChannelAllowsWithoutKeyword(channel) ==
    /\ channel \in DOMAIN CHANNEL_EXCEPTIONS
    /\ "allow_without_standup_keyword" \in CHANNEL_EXCEPTIONS[channel]

HasSignatureKeyword(title) ==
    LET t == casefold(title)
    IN  Contains(t, "stendap") \/ Contains(t, "stand up") \/ Contains(t, "standup")

\* The reason of the earliest of rules 5 and 6 the title violates, or "".
ExpectedTitleReason(title) ==
    LET t == casefold(title)
    IN  IF Contains(t, "podkast") \/ Contains(t, "pidkast") \/ Contains(t, "podcast")
        THEN "title_has_podcast"
        ELSE IF Contains(t, "improvizatsi") \/ Contains(t, "improv")
        THEN "title_has_improv"
        ELSE IF Contains(t, "rozgony") \/ Contains(t, "zagony")
        THEN "title_has_rozgony"
        ELSE IF Contains(t, "hvylyna") \/ Contains(t, "uvagy")
        THEN "title_has_hvylyna"
        ELSE IF Contains(t, "ya znayu de ty zhyvesh") THEN "banned_phrase:ya znayu de ty zhyvesh"
        ELSE IF Contains(t, "medychni istorii") THEN "banned_phrase:MEDYCHNI ISTORII"
        ELSE IF Contains(t, "kraud-vork") THEN "banned_phrase:KRAUD-VORK"
        ELSE IF Contains(t, "vlog") THEN "banned_phrase:VLOG"
        ELSE ""

\* The reason of the earliest of rules 1 to 3 the record violates, or "".
ExpectedTimeReason(v) ==
    IF v.published_at < 20220224 THEN "before_2022_02_24"
    ELSE IF v.duration_sec <= 240 THEN "too_short_<=_240s"
    ELSE IF v.duration_sec >= 7200 THEN "too_long_>=_7200s"
    ELSE ""

\* The reason of the earliest rule, in the declared order, that the record
\* violates; the empty text when it violates none.
ExpectedReason(v) ==
    IF ExpectedTimeReason(v) # "" THEN ExpectedTimeReason(v)
    ELSE IF ~ChannelAllowsWithoutKeyword(v.channel_id) /\ ~HasSignatureKeyword(v.title)
    THEN "no_standup_keyword"
    ELSE ExpectedTitleReason(v.title)

\* The number of rule groups, of the six of the claim, the record violates.
ViolationCount(v) ==
    Cardinality({k \in 1..6 :
        \/ k = 1 /\ v.published_at < 20220224
        \/ k = 2 /\ v.duration_sec <= 240
        \/ k = 3 /\ v.duration_sec >= 7200
        \/ k = 4 /\ ~ChannelAllowsWithoutKeyword(v.channel_id) /\ ~HasSignatureKeyword(v.title)
        \/ k = 5 /\ ExpectedTitleReason(v.title) # ""})

\* Whether a row of fetch.py is the row of the video.
RowIsOf(row, v) ==
    /\ row.video_id = v.video_id
    /\ row.url = v.url
    /\ row.title = v.title
    /\ row.channel_id = v.channel_id
    /\ row.published_at = v.published_at
    /\ row.duration_sec = ToString(v.duration_sec)

RowsOf(rows, v) == {i \in 1..Len(rows) : RowIsOf(rows[i], v)}

\* The video has an accepted row and no rejected row.
AcceptedOnly(v) ==
    RowsOf(accepted_rows, v) # {} /\ RowsOf(rejected_rows, v) = {}

\* The video has no accepted row, and rejected rows of that one reason only.
RejectedWith(v, reason) ==
    /\ RowsOf(accepted_rows, v) = {}
    /\ RowsOf(rejected_rows, v) # {}
    /\ \A k \in RowsOf(rejected_rows, v) : rejected_rows[k].reject_reason = reason

VerdictIs(v, reason) == IF reason = "" THEN AcceptedOnly(v) ELSE RejectedWith(v, reason)

\* C1: every video the rule chain has evaluated that violates no rule has an
\* accepted row and no rejected row; every video that violates a rule has no
\* accepted row, and each of its rejected rows carries exactly one reason,
\* that of the earliest rule in the declared order that the video violates.
C1_FirstFailure ==
    \A i \in 1..fi : VerdictIs(videos[i], ExpectedReason(videos[i]))

\* C1 witness: a video published in time that violates three or more rules
\* has been rejected with the reason of the duration rule alone.
C1_Witness ==
    \E i \in 1..fi :
        /\ ViolationCount(videos[i]) >= 3
        /\ videos[i].published_at >= 20220224
        /\ \E k \in RowsOf(rejected_rows, videos[i]) :
               rejected_rows[k].reject_reason = "too_short_<=_240s"

\* C2: at every point of the loop of fetch.main the accepted and the rejected
\* rows together are as many as the videos evaluated; every evaluated video
\* has as many rows, over both lists, as it has occurrences among the videos
\* evaluated; and its rows are all rejected when apply_rules returned not-ok
\* for it and all accepted when it returned ok.
C2_Partition ==
    /\ Len(accepted_rows) + Len(rejected_rows) = fi
    /\ \A i \in 1..fi :
        LET v == videos[i]
            occurrences == Cardinality({j \in 1..fi : videos[j] = v})
        IN  /\ Cardinality(RowsOf(accepted_rows, v)) + Cardinality(RowsOf(rejected_rows, v))
                   = occurrences
            /\ IF apply_rules(v, RULES)[1]
               THEN RowsOf(rejected_rows, v) = {}
               ELSE RowsOf(accepted_rows, v) = {}
    /\ \A k \in 1..Len(accepted_rows) : "reject_reason" \notin DOMAIN accepted_rows[k]
    /\ \A k \in 1..Len(rejected_rows) : "reject_reason" \in DOMAIN rejected_rows[k]

\* C2 witness: a whole batch of three has been evaluated, one video of it
\* twice, and both lists have rows.
C2_Witness ==
    /\ fi = 3
    /\ fi = Len(videos)
    /\ \E i, j \in 1..fi : i # j /\ videos[i] = videos[j]
    /\ accepted_rows # <<>>
    /\ rejected_rows # <<>>

\* The exclusion sets of the run's exceptions.txt.
Exclusions == load_exceptions(exceptions_txt)

\* Whether the sets list the record, by id or by exact URL.
Listed(ex, id, url) == id \in ex[1] \/ url \in ex[2]

\* Whether a row of rate.py is the row of the video rate.py read.
RateRowIsOf(row, v) ==
    /\ row.video_id = v.video_id
    /\ row.url = v.url
    /\ row.title = v.title
    /\ row.view_count = v.view_count
    /\ row.like_count = v.like_count

RateRowsOf(rows, v) == {k \in 1..Len(rows) : RateRowIsOf(rows[k], v)}

\* Whether a row of rate.py is the row of a video fetch.py evaluated.
PipelineRowsOf(rows, v) ==
    {k \in 1..Len(rows) : /\ rows[k].video_id = v.video_id
                          /\ rows[k].url = v.url
                          /\ rows[k].title = v.title}

Excluded(v) == v.video_id \in excluded_ids \/ v.url \in excluded_urls

\* C4: of the videos the rating stage has processed that are not excluded,
\* one whose title matches exactly one canonical name has clean rows with
\* that performer and no dropped row; one whose title matches none has only
\* dropped rows with reason "no_performer_in_title"; one whose title matches
\* two or more has only dropped rows with reason
\* "multiple_performers_in_title", each naming every matched performer, and
\* no clean row.
C4_AttributionCardinality ==
    \A i \in 1..ri :
        LET v == rate_videos[i]
            matched == match_performers_in_title(v.title, compiled_aliases)
            clean == RateRowsOf(clean_rows, v)
            dropped == RateRowsOf(dropped_rows, v)
        IN  ~Excluded(v) =>
              CASE Cardinality(matched) = 1 ->
                     /\ dropped = {}
                     /\ clean # {}
                     /\ \A k \in clean : clean_rows[k].performer \in matched
                [] Cardinality(matched) = 0 ->
                     /\ clean = {}
                     /\ dropped # {}
                     /\ \A k \in dropped :
                            dropped_rows[k].drop_reason = "no_performer_in_title"
                [] OTHER ->
                     /\ clean = {}
                     /\ dropped # {}
                     /\ \A k \in dropped :
                            /\ dropped_rows[k].drop_reason = "multiple_performers_in_title"
                            /\ "matched_performers" \in DOMAIN dropped_rows[k]
                            /\ \A name \in matched :
                                   Contains(dropped_rows[k].matched_performers, name)

\* C4 witness: one run has attributed a video, dropped one that names no
\* performer and dropped one that names two, with both names on its row.
C4_Witness ==
    /\ clean_rows # <<>>
    /\ \E k \in 1..Len(dropped_rows) : dropped_rows[k].drop_reason = "no_performer_in_title"
    /\ \E k \in 1..Len(dropped_rows) :
           /\ dropped_rows[k].drop_reason = "multiple_performers_in_title"
           /\ Cardinality(match_performers_in_title(dropped_rows[k].title,
                                                    compiled_aliases)) = 2
           /\ Contains(dropped_rows[k].matched_performers, "; ")

\* C5: when the rating stage has finished, the clean and the dropped rows
\* together are as many as the rows of the input video table.
C5_NoRowDiscarded ==
    pc = "done" => Len(clean_rows) + Len(dropped_rows) = Len(filtered_csv.lines)

\* The accumulators of the rating stage.
accumulators == <<per_views, per_minutes, per_likes, global_views, global_likes>>

\* C6: the pass of the loop over an excluded video appends one dropped row
\* with reason "exception" and no list of matched performers, and changes
\* neither the clean rows nor any accumulator; no clean row is ever that of
\* an excluded video.
C6_ExceptionShortCircuit ==
    /\ [](\A k \in 1..Len(clean_rows) : ~Excluded(clean_rows[k]))
    /\ [][(/\ pc = "rate_loop"
           /\ ri' = ri + 1
           /\ Excluded(rate_videos[ri + 1]))
          => (/\ clean_rows' = clean_rows
              /\ accumulators' = accumulators
              /\ Len(dropped_rows') = Len(dropped_rows) + 1
              /\ SubSeq(dropped_rows', 1, Len(dropped_rows)) = dropped_rows
              /\ LET row == dropped_rows'[Len(dropped_rows')]
                 IN  /\ RateRowIsOf(row, rate_videos[ri + 1])
                     /\ row.drop_reason = "exception"
                     /\ "matched_performers" \notin DOMAIN row)]_vars

\* C6 witness: videos excluded by their URL alone, one naming two performers
\* and one naming a single performer, were dropped as exceptions after a
\* video had been attributed, whose totals stand.
C6_Witness ==
    /\ global_views > 0
    /\ Len(clean_rows) = 1
    /\ \E j, k \in 1..Len(dropped_rows) :
           /\ dropped_rows[j].drop_reason = "exception"
           /\ dropped_rows[k].drop_reason = "exception"
           /\ dropped_rows[k].video_id \notin excluded_ids
           /\ dropped_rows[j].video_id \notin excluded_ids
           /\ Cardinality(match_performers_in_title(dropped_rows[k].title,
                                                    compiled_aliases)) = 2
           /\ Cardinality(match_performers_in_title(dropped_rows[j].title,
                                                    compiled_aliases)) = 1

\* Whether the rating stage attributes the video: not excluded, one performer.
Attributed(v) ==
    /\ ~Excluded(v)
    /\ Cardinality(match_performers_in_title(v.title, compiled_aliases)) = 1

\* C7 (view and like counts are counts, never below 0): at every point of
\* the rating loop global_views and global_likes are
\* the sums of view_count and like_count over the processed videos that are
\* attributed to exactly one performer, which are the sums over the clean
\* rows and the sums over the performers of their views and likes; the video
\* counts of the performers add up to the number of clean rows; and after
\* the loop p0 is global_likes / global_views, or 0 when global_views is 0.
C7_Conservation ==
    LET processed == SubSeq(rate_videos, 1, ri)
        kept == SelectSeq(processed, Attributed)
        Views(rows) == SumSeq([n \in 1..Len(rows) |-> rows[n].view_count])
        Likes(rows) == SumSeq([n \in 1..Len(rows) |-> rows[n].like_count])
    IN  /\ global_views = Views(kept)
        /\ global_likes = Likes(kept)
        /\ global_views = Views(clean_rows)
        /\ global_likes = Likes(clean_rows)
        /\ global_views = SumSeq([n \in 1..Len(per_views) |-> SumSeq(per_views[n][2])])
        /\ global_likes = SumSeq([n \in 1..Len(per_likes) |-> per_likes[n][2]])
        /\ Len(clean_rows) = SumSeq([n \in 1..Len(per_views) |-> Len(per_views[n][2])])
        /\ Len(clean_rows) = Len(kept)
        /\ {per_views[n][1] : n \in 1..Len(per_views)}
               = {per_likes[n][1] : n \in 1..Len(per_likes)}
        /\ pc = "done" =>
              IF global_views = 0 THEN p0[1] = 0 /\ p0[2] # 0
              ELSE p0[2] # 0 /\ p0[1] * global_views = global_likes * p0[2]

\* C7 witness: a finished run with two performers, views and likes counted,
\* a dropped video with views of its own, and a prior above 0.
C7_Witness ==
    /\ pc = "done"
    /\ Len(per_views) = 2
    /\ global_views > 0
    /\ global_likes > 0
    /\ p0[1] > 0
    /\ \E k \in 1..Len(dropped_rows) : dropped_rows[k].view_count > 0

\* The key the rating rows are sorted by.
ActiveKey(row) ==
    IF ENABLE_ENGAGEMENT_MULTIPLIER THEN row.score_with_engagement ELSE row.score

\* C8: after ranking, the rows are as many as the performers, their ranks
\* are exactly 1..N, the rows are in non-increasing order of the active sort
\* key, and the row of rank 1 has the greatest active sort key.
C8_RankValidity ==
    pc = "done" =>
        LET N == Len(per_views)
        IN  /\ Len(rating_rows) = N
            /\ {rating_rows[i].rank : i \in 1..N} = 1..N
            /\ {rating_rows[i].performer : i \in 1..N} = {per_views[i][1] : i \in 1..N}
            /\ \A i, j \in 1..N :
                   i < j => ActiveKey(rating_rows[i]) >= ActiveKey(rating_rows[j])
            /\ \A i, j \in 1..N :
                   rating_rows[i].rank = 1 =>
                       ActiveKey(rating_rows[i]) >= ActiveKey(rating_rows[j])

\* C8 witness: three performers are ranked by the engagement score, the
\* first strictly above the second, and the first is not the performer the
\* loop met first.
C8_Witness ==
    /\ pc = "done"
    /\ ENABLE_ENGAGEMENT_MULTIPLIER
    /\ Len(rating_rows) = 3
    /\ rating_rows[1].score_with_engagement > rating_rows[2].score_with_engagement
    /\ rating_rows[1].performer # per_views[1][1]
    /\ \E i \in 1..3 : rating_rows[i].eng_mult # 1000

\* C9 as stated: every performer without views has a smoothed like rate
\* equal to p0, whatever its likes.
C9_SmoothEqualsPrior ==
    pc = "done" =>
        \A i \in 1..Len(rating_rows) :
            rating_rows[i].total_views = 0 => RatEq(rating_rows[i].like_rate_smooth, p0)

\* C9 amended: every performer without views has a smoothed like rate of
\* p0 + total_likes / M; it equals p0 exactly when the performer has no
\* likes either.
C9_SmoothAtZeroViews ==
    pc = "done" =>
        \A i \in 1..Len(rating_rows) :
            LET row == rating_rows[i]
                s == row.like_rate_smooth
            IN  row.total_views = 0 =>
                    /\ s[2] # 0
                    /\ (s[1] * p0[2] - p0[1] * s[2]) * SMOOTH_M_VIEWS
                           = row.total_likes * s[2] * p0[2]
                    /\ RatEq(s, p0) <=> row.total_likes = 0

\* C9 witness: with a prior above 0, one performer has neither views nor
\* likes and another has likes without views.
C9_Witness ==
    /\ pc = "done"
    /\ p0[1] > 0
    /\ \E i, j \in 1..Len(rating_rows) :
           /\ rating_rows[i].total_views = 0
           /\ rating_rows[i].total_likes = 0
           /\ rating_rows[j].total_views = 0
           /\ rating_rows[j].total_likes > 0

\* The reason of the earliest rule other than the keyword rule that the
\* record violates; the channel is not read.
ExpectedReasonWithoutKeywordRule(v) ==
    IF ExpectedTimeReason(v) # "" THEN ExpectedTimeReason(v)
    ELSE ExpectedTitleReason(v.title)

\* C10: for a video of a channel with the override flag the keyword rule
\* passes whatever the title, and the video is accepted or rejected as the
\* other rules alone decide; for a video of a channel without the flag whose
\* title has no signature keyword the keyword rule fails, the video is never
\* accepted, and its reason is "no_standup_keyword" when it passes the
\* cutoff and duration rules.
C10_ChannelOverride ==
    \A i \in 1..fi :
        LET v == videos[i]
        IN  /\ ChannelAllowsWithoutKeyword(v.channel_id) =>
                /\ rule_title_has_standup(v)[1]
                /\ VerdictIs(v, ExpectedReasonWithoutKeywordRule(v))
            /\ (~ChannelAllowsWithoutKeyword(v.channel_id) /\ ~HasSignatureKeyword(v.title)) =>
                /\ ~rule_title_has_standup(v)[1]
                /\ RowsOf(accepted_rows, v) = {}
                /\ ExpectedTimeReason(v) = "" => RejectedWith(v, "no_standup_keyword")

\* C10 witness: a video without a signature keyword in its title, of the
\* channel with the override, has been accepted.
C10_Witness ==
    \E k \in 1..Len(accepted_rows) :
        /\ ChannelAllowsWithoutKeyword(accepted_rows[k].channel_id)
        /\ ~HasSignatureKeyword(accepted_rows[k].title)

\* The channels.txt of a run of the pipeline: missing, that of the
\* repository, or one with a handle no channel has, a channel with no
\* uploads, or a line that is no identifier.
ChannelFiles ==
    {NoFile, CHANNELS_TXT, File(<<"UCmain", "@gone">>), File(<<"UCmain", "UCnone">>),
     File(<<"bogus", "UCmain">>)}

\* What the API has for the channels.
UPLOADS ==
    [c \in {"UCmain", "UCopen"} |->
        IF c = "UCmain"
        THEN <<Item("AAAAAAAAAA1", "UCmain", "Standup Ivan", 20220225, "PT10M",
                    [viewCount |-> "3", likeCount |-> "1"]),
               Item("BBBBBBBBBB2", "UCmain", "Petro podcast", 20220101, "PT1M",
                    [viewCount |-> "4", likeCount |-> "1"])>>
        ELSE <<Item("CCCCCCCCCC3", "UCopen", "Vanya  live", 20220301, "PT1H59M59S",
                    [likeCount |-> "1"])>>]

\* run_pipeline.py from its start: fetch.py, rate.py, export_json.py, over
\* the input files that may be missing.
InitRun ==
    /\ \E f \in ChannelExceptionFiles : CHANNEL_EXCEPTIONS = load_channel_exceptions(f)
    /\ exceptions_txt \in ExceptionFiles
    /\ ENABLE_ENGAGEMENT_MULTIPLIER = FALSE
    /\ channels_txt \in ChannelFiles
    /\ performers_txt \in {NoFile, INPUT_PERFORMERS}
    /\ uploads = UPLOADS
    /\ pc = "fetch_start"
    /\ videos = <<>>
    /\ fi = 0
    /\ accepted_rows = <<>>
    /\ rejected_rows = <<>>
    /\ filtered_csv = NoFile
    /\ RateInit
    /\ RunInit
    /\ ScoreInit

\* run_pipeline.py:13-18: each script runs when the one before it has ended
\* without error.
NextRun ==
    \/ FetchStart \/ NextChannel \/ FetchAbort \/ FilterVideo \/ FetchExport
    \/ RateStart \/ RateAbort \/ RateVideo \/ RateScore
    \/ ExportJson

SpecRun == InitRun /\ [][NextRun]_vars

\* Rows with view counts of the size of SMOOTH_M_VIEWS, where the smoothed
\* like rate of a performer moves away from the prior.
EngageRow(id, title, views, likes) ==
    [video_id |-> id, url |-> WatchUrl(id), title |-> title, view_count |-> views,
     like_count |-> likes, duration_sec |-> "600", published_at |-> 20220225,
     channel_id |-> "UCmain"]

EngageRows ==
    {EngageRow("AAAAAAAAAA1", "Standup Ivan", "100000", "0"),
     EngageRow("BBBBBBBBBB2", "Petro live", "100000", "50000"),
     EngageRow("CCCCCCCCCC3", "Olena standup", "100000", "30000"),
     EngageRow("DDDDDDDDDD4", "Vanya live", "100000", "20000"),
     EngageRow("EEEEEEEEEE5", "Olena", "0", "0")}

MaxEngageRows == 2

\* rate.py run by itself on a table of such rows, the engagement flag on
\* or off.
InitEngage ==
    /\ CHANNEL_EXCEPTIONS = <<>>
    /\ exceptions_txt = NoFile
    /\ ENABLE_ENGAGEMENT_MULTIPLIER \in BOOLEAN
    /\ channels_txt = NoFile
    /\ performers_txt = INPUT_PERFORMERS
    /\ uploads = <<>>
    /\ pc = "rate_start"
    /\ videos = <<>>
    /\ fi = 0
    /\ accepted_rows = <<>>
    /\ rejected_rows = <<>>
    /\ filtered_csv \in {File(b) : b \in Batches(EngageRows, MaxEngageRows)}
    /\ RateInit
    /\ RunInit
    /\ ScoreInit

NextEngage == RateStart \/ RateVideo \/ RateScore

SpecEngage == InitEngage /\ [][NextEngage]_vars

\* Values of a metric: zero, the ends of a power of two, small and large.
MetricGrid == {0, 1, 3, 4, 60, 100000}

\* compute_base_score called on the metrics, total_minutes in sixtieths.
ScoreOf(m) ==
    compute_base_score(m.total_views, m.peak_views, m.video_count,
                       <<m.total_seconds, 60>>)

\* The first call.
Score ==
    /\ score_value = None
    /\ score_value' = <<ScoreOf(metrics)>>
    /\ UNCHANGED <<metrics, prev_score>>
    /\ UNCHANGED <<configVars, pc, fetchVars, filtered_csv, rateVars, runVars>>

\* A further call with one metric raised and the other three as they were.
Raise ==
    /\ score_value # None
    /\ \E f \in DOMAIN metrics, x \in MetricGrid :
           /\ x > metrics[f]
           /\ metrics' = [metrics EXCEPT ![f] = x]
    /\ prev_score' = score_value
    /\ score_value' = <<ScoreOf(metrics')>>
    /\ UNCHANGED <<configVars, pc, fetchVars, filtered_csv, rateVars, runVars>>

\* compute_base_score by itself, over every non-negative value of the grid
\* for each metric.
InitScore ==
    /\ CHANNEL_EXCEPTIONS = <<>>
    /\ exceptions_txt = NoFile
    /\ ENABLE_ENGAGEMENT_MULTIPLIER = FALSE
    /\ channels_txt = NoFile
    /\ performers_txt = INPUT_PERFORMERS
    /\ uploads = <<>>
    /\ pc = "done"
    /\ videos = <<>>
    /\ fi = 0
    /\ accepted_rows = <<>>
    /\ rejected_rows = <<>>
    /\ filtered_csv = NoFile
    /\ RateInit
    /\ RunInit
    /\ metrics \in [{"total_views", "peak_views", "video_count", "total_seconds"}
                       -> MetricGrid]
    /\ prev_score = None
    /\ score_value = None

NextScore == Score \/ Raise

SpecScore == InitScore /\ [][NextScore]_vars

\* The aliases of the performers: <<canonical name, aliases>> in file order.
AliasTable == load_performers(INPUT_PERFORMERS)[1]

\* The alias stands in the text at place i, case ignored, with no word
\* character right before it and none right after it.
StandsAt(alias, t, i) ==
    LET j == i + Len(alias)
    IN  /\ j - 1 <= Len(t)
        /\ casefold(SubSeq(t, i, j - 1)) = casefold(alias)
        /\ (i = 1 \/ CharAt(t, i - 1) \notin WordChars)
        /\ (j > Len(t) \/ CharAt(t, j) \notin WordChars)

\* The canonical names with an alias that stands somewhere in the title.
ExpectedMatched(title) ==
    LET t == normalize_spaces(title)
    IN  {AliasTable[n][1] : n \in {k \in 1..Len(AliasTable) :
            \E a \in 1..Len(AliasTable[k][2]), i \in 1..Len(t) :
                StandsAt(AliasTable[k][2][a], t, i)}}

\* C11: an alias matches a title exactly where it stands with no word
\* character right before or after it, case ignored: a processed video that
\* is not excluded is attributed to the one performer with an alias standing
\* so in its title, dropped for no performer when there is none, and dropped
\* with all their names when there are several.  "Ivan" does not match in
\* "Ivanenko" and matches in "Ivan speaks" in any case of its letters.
C11_AliasBoundary ==
    /\ ~AliasSearch("Ivan", "Ivanenko")
    /\ AliasSearch("Ivan", "Ivan speaks")
    /\ AliasSearch("Ivan", "IVAN speaks")
    /\ \A i \in 1..ri :
        LET v == rate_videos[i]
            expected == ExpectedMatched(v.title)
            clean == RateRowsOf(clean_rows, v)
            dropped == RateRowsOf(dropped_rows, v)
        IN  ~Excluded(v) =>
              CASE Cardinality(expected) = 1 ->
                     /\ dropped = {}
                     /\ clean # {}
                     /\ \A k \in clean : clean_rows[k].performer \in expected
                [] Cardinality(expected) = 0 ->
                     /\ clean = {}
                     /\ dropped # {}
                     /\ \A k \in dropped :
                            dropped_rows[k].drop_reason = "no_performer_in_title"
                [] OTHER ->
                     /\ clean = {}
                     /\ dropped # {}
                     /\ \A k \in dropped :
                            /\ dropped_rows[k].drop_reason = "multiple_performers_in_title"
                            /\ dropped_rows[k].matched_performers
                                   = Join(SortedTexts(expected), "; ")

\* C11 witness: a title with "Ivanenko" and, in lower case, "petro" has been
\* attributed to Petro Koval alone.
C11_Witness ==
    \E k \in 1..Len(clean_rows) :
        /\ clean_rows[k].title = "Ivanenko and petro speak"
        /\ clean_rows[k].performer = "Petro Koval"

\* The items of the channels fetch.py has handled, in the order of videos.
RECURSIVE FetchedItems(_)
FetchedItems(n) ==
    IF n = 0 THEN <<>>
    ELSE FetchedItems(n - 1) \o uploads[resolve_channel_id(channel_inputs[n])[2]]

\* The seconds of the well-formed duration texts.
ExpectedSeconds ==
    [d \in {"PT", "PT4M", "PT4M1S", "PT1H59M59S", "PT2H"} |->
        CASE d = "PT" -> 0
          [] d = "PT4M" -> 240
          [] d = "PT4M1S" -> 241
          [] d = "PT1H59M59S" -> 7199
          [] d = "PT2H" -> 7200]

\* C12: a video passes the cutoff rule exactly when it is published on or
\* after 2022-02-24, the minimum rule exactly when its duration is above
\* 240 s and the maximum rule exactly when it is below 7200 s; so a video
\* published in time of 240 s or less is rejected as too short and one of
\* 7200 s or more as too long, and one of 241 to 7199 s for neither reason.
\* A duration text that is no PT#H#M#S gives the video 0 seconds, and the
\* rules treat it as a duration of 0.
C12_RuleBoundaries ==
    /\ Len(videos) = Len(FetchedItems(ci))
    /\ \A i \in 1..Len(videos) :
        LET v == videos[i]
            it == FetchedItems(ci)[i]
        IN  /\ it.duration \in DOMAIN ExpectedSeconds =>
                   v.duration_sec = ExpectedSeconds[it.duration]
            /\ it.duration \notin DOMAIN ExpectedSeconds => v.duration_sec = 0
            /\ rule_after_cutoff(v)[1] <=> it.publishedAt >= 20220224
            /\ rule_min_duration(v)[1] <=> v.duration_sec > 240
            /\ rule_max_duration(v)[1] <=> v.duration_sec < 7200
            /\ (i <= fi /\ it.publishedAt >= 20220224) =>
                 /\ v.duration_sec <= 240 => RejectedWith(v, "too_short_<=_240s")
                 /\ v.duration_sec >= 7200 => RejectedWith(v, "too_long_>=_7200s")
                 /\ (v.duration_sec > 240 /\ v.duration_sec < 7200) =>
                      \A k \in RowsOf(rejected_rows, v) :
                          rejected_rows[k].reject_reason
                              \notin {"before_2022_02_24", "too_short_<=_240s",
                                      "too_long_>=_7200s"}
            /\ (i <= fi /\ it.publishedAt < 20220224) =>
                 RejectedWith(v, "before_2022_02_24")

\* C12 witness: a video published on the cutoff day whose duration text has
\* a trailing blank got 0 seconds and was rejected as too short.
C12_Witness ==
    /\ fi = 1
    /\ FetchedItems(ci)[1].duration = "PT5M "
    /\ FetchedItems(ci)[1].publishedAt = 20220224
    /\ videos[1].duration_sec = 0
    /\ RejectedWith(videos[1], "too_short_<=_240s")

\* The verdict of the rating stage on a record, from the record's fields
\* and the tables of the run alone: the drop reason, or "" for a clean row.
ExpectedDrop(v) ==
    LET n == Cardinality(match_performers_in_title(v.title, compiled_aliases))
    IN  IF Listed(Exclusions, v.video_id, v.url) THEN "exception"
        ELSE IF n = 0 THEN "no_performer_in_title"
        ELSE IF n > 1 THEN "multiple_performers_in_title"
        ELSE ""

\* C13: the verdict and reason code of a record are a function of the
\* record's own fields and of the tables of the run, in both stages, whatever
\* records the batch holds before or after it and in whatever order: every
\* record the rule chain has evaluated has the verdict ExpectedReason gives
\* it, every record the rating stage has processed has the verdict
\* ExpectedDrop gives it, and no two rows of records with the same fields
\* carry different reasons.
C13_OrderIndependence ==
    /\ \A i \in 1..fi :
        LET v == videos[i]
            reason == ExpectedReason(v)
        IN  /\ reason = "" => AcceptedOnly(v)
            /\ reason # "" => RejectedWith(v, reason)
    /\ \A i \in 1..ri :
        LET v == rate_videos[i]
            reason == ExpectedDrop(v)
            clean == RateRowsOf(clean_rows, v)
            dropped == RateRowsOf(dropped_rows, v)
        IN  IF reason = "" THEN clean # {} /\ dropped = {}
            ELSE /\ clean = {}
                 /\ dropped # {}
                 /\ \A k \in dropped : dropped_rows[k].drop_reason = reason
    /\ \A k, l \in 1..Len(rejected_rows) :
        RowIsOf(rejected_rows[k], [rejected_rows[l] EXCEPT
                    !.duration_sec = DigitsToInt(rejected_rows[l].duration_sec)]) =>
            rejected_rows[k].reject_reason = rejected_rows[l].reject_reason

\* C13 witness: a finished run of a batch of three records, of which the
\* rule chain rejected one and the rating stage, after it had attributed a
\* video to a performer, dropped a later record whose title names that
\* performer and another.
C13_Witness ==
    /\ pc = "done"
    /\ Len(videos) = 3
    /\ rejected_rows # <<>>
    /\ \E k \in 1..Len(dropped_rows), c \in 1..Len(clean_rows) :
           /\ dropped_rows[k].drop_reason = "multiple_performers_in_title"
           /\ Contains(dropped_rows[k].matched_performers, clean_rows[c].performer)
           /\ \E i, j \in 1..ri : /\ i < j
                                  /\ RateRowIsOf(clean_rows[c], rate_videos[i])
                                  /\ RateRowIsOf(dropped_rows[k], rate_videos[j])

\* C14 as stated: when the run has been aborted, by a missing input file or
\* by a channel that is not resolved or not found, no stage has written an
\* output file in that run.
C14_NoPartialOutput ==
    pc = "aborted" => outputs = {}

\* The minutes an entry of the summary of the form "duration < N min" or
\* "duration > N min" states.
StatedMinutes(entry) ==
    LET rest == SubSeq(entry, 12, Len(entry))
    IN  DigitsToInt(SubSeq(rest, 1, DigitPrefix(rest)))

\* C15 as stated: the run summary has one entry for each rule of the chain,
\* in the order of the chain; the entries of the cutoff, the minimum and the
\* maximum duration state the thresholds rules 1 to 3 enforce, so that every
\* accepted video is within the stated bounds; and the counts are the numbers
\* of accepted and rejected rows.
C15_SummaryMatchesRules ==
    debug_json.exists =>
        /\ Len(debug_json.criteria_order) = Len(RULES)
        /\ debug_json.criteria_order[1] = "published_at >= 2022-02-24"
        /\ CUTOFF_DATE = 20220224
        /\ StartsWith(debug_json.criteria_order[2], "duration > ")
        /\ StatedMinutes(debug_json.criteria_order[2]) * 60 = MIN_SEC
        /\ StartsWith(debug_json.criteria_order[3], "duration < ")
        /\ StatedMinutes(debug_json.criteria_order[3]) * 60 = MAX_SEC
        /\ \A k \in 1..Len(accepted_rows) :
               /\ DigitsToInt(accepted_rows[k].duration_sec)
                      > StatedMinutes(debug_json.criteria_order[2]) * 60
               /\ DigitsToInt(accepted_rows[k].duration_sec)
                      < StatedMinutes(debug_json.criteria_order[3]) * 60
        /\ debug_json.counts.accepted = Len(accepted_rows)
        /\ debug_json.counts.rejected = Len(rejected_rows)

\* 1 + 0.5 * (s - p) / p of the rationals s and p > 0, in thousandths.
RawMultiplier(s, p) == ((s[2] * p[1] + s[1] * p[2]) * 1000) \div (2 * s[2] * p[1])

\* C16: in the rating of a finished run, when the engagement flag is off or
\* p0 is 0 every performer has eng_mult 1.0 and a score_with_engagement equal
\* to the base score; when the flag is on and p0 > 0, eng_mult is
\* 1 + 0.5 * (like_rate_smooth - p0) / p0 brought into [0.85, 1.15], and
\* score_with_engagement is the base score times eng_mult.
C16_EngagementMultiplier ==
    pc = "done" =>
        \A i \in 1..Len(rating_rows) :
            LET row == rating_rows[i]
                raw == RawMultiplier(row.like_rate_smooth, p0)
            IN  IF ENABLE_ENGAGEMENT_MULTIPLIER /\ p0[1] > 0
                THEN /\ row.eng_mult >= 850
                     /\ row.eng_mult <= 1150
                     /\ row.eng_mult = IF raw < 850 THEN 850
                                       ELSE IF raw > 1150 THEN 1150 ELSE raw
                     /\ row.score_with_engagement = (row.score * row.eng_mult) \div 1000
                ELSE /\ row.eng_mult = 1000
                     /\ row.score_with_engagement = row.score

\* C16 witness: with the flag on and p0 > 0, one rating has a performer held
\* at 0.85 and one held at 1.15, whose scores with engagement differ from
\* their base scores.
C16_Witness ==
    /\ pc = "done"
    /\ ENABLE_ENGAGEMENT_MULTIPLIER
    /\ p0[1] > 0
    /\ \E i, j \in 1..Len(rating_rows) :
           /\ rating_rows[i].eng_mult = 850
           /\ RawMultiplier(rating_rows[i].like_rate_smooth, p0) < 850
           /\ rating_rows[i].score_with_engagement < rating_rows[i].score
           /\ rating_rows[j].eng_mult = 1150
           /\ RawMultiplier(rating_rows[j].like_rate_smooth, p0) > 1150
           /\ rating_rows[j].score_with_engagement > rating_rows[j].score

\* C17: when compute_base_score is called again with one of total_views,
\* peak_views, video_count and total_minutes strictly raised and the other
\* three as they were, all four non-negative, the value it returns is not
\* below the value of the call before.
C17_ScoreMonotone ==
    prev_score # None => score_value[1] >= prev_score[1]

\* C17 witness: a call with a raised metric has returned a strictly higher
\* value than the call before, and the metrics are not all equal.
C17_Witness ==
    /\ prev_score # None
    /\ score_value[1] > prev_score[1]
    /\ metrics.total_views = 100000
    /\ metrics.total_seconds = 60
    /\ metrics.video_count = 0

\* The lines of exceptions.txt that list something: trimmed, not blank, no
\* comment.
ListedLines ==
    IF ~exceptions_txt.exists THEN {}
    ELSE {l \in {strip(exceptions_txt.lines[n]) : n \in 1..Len(exceptions_txt.lines)} :
             l # "" /\ ~StartsWith(l, "#")}

\* The line is the 11-character id, or a URL that holds it after "v=",
\* "/shorts/" or "youtu.be/".
NamesId(line, id) ==
    /\ Len(id) = 11
    /\ \A n \in 1..Len(id) :
           CharIn(CharAt(id, n),
                  "ABCDEFGHIJKLMNOPQRSTUVWXYZabcdefghijklmnopqrstuvwxyz0123456789_-")
    /\ \/ line = id
       \/ Contains(line, "v=" \o id)
       \/ Contains(line, "/shorts/" \o id)
       \/ Contains(line, "youtu.be/" \o id)

\* C18: a processed record whose id a listed line names, bare or inside a
\* URL, is dropped as "exception" and is in no clean row, even when its own
\* URL is on no line; a record whose id no line names is dropped as
\* "exception" exactly when its URL equals a listed line: a line that names
\* no id excludes no record through the record's id.
C18_ExclusionByEmbeddedId ==
    \A i \in 1..ri :
        LET v == rate_videos[i]
            byId == \E l \in ListedLines : NamesId(l, v.video_id)
            byUrl == v.url \in ListedLines
            clean == RateRowsOf(clean_rows, v)
            dropped == RateRowsOf(dropped_rows, v)
        IN  IF byId \/ byUrl
            THEN /\ clean = {}
                 /\ dropped # {}
                 /\ \A k \in dropped : dropped_rows[k].drop_reason = "exception"
            ELSE \A k \in dropped : dropped_rows[k].drop_reason # "exception"

\* C18 witness: the list holds a youtu.be URL with an id and the line
\* "vid.5"; the record with that id, whose own URL is on no line, has been
\* dropped as "exception".
C18_Witness ==
    /\ "vid.5" \in ListedLines
    /\ ri = 1
    /\ rate_videos[1].video_id = "BBBBBBBBBB2"
    /\ rate_videos[1].url \notin ListedLines
    /\ rate_videos[1].video_id \notin ListedLines
    /\ \E k \in 1..Len(dropped_rows) :
           /\ RateRowIsOf(dropped_rows[k], rate_videos[1])
           /\ dropped_rows[k].drop_reason = "exception"

====
